---- MODULE Spec2Model ----
(***************************************************************************)
(* Model of the xprogram voting program: the Topic account buffer, the     *)
(* Topic/Option codec (state.rs), the delimiter-terminated text fields     *)
(* (util.rs), the instruction codec (instruction.rs) and the instruction   *)
(* handlers with their dispatcher (processor.rs).                          *)
(*                                                                         *)
(* Arrays keep the 0-based indices of the source and are functions over    *)
(* 0..N-1.  A &str is a sequence of bytes.  A Pubkey is a natural number   *)
(* (Pubkey::new / to_bytes copy the 32 bytes unchanged).  The buffer is    *)
(* modelled field by field: array_refs! cuts it at fixed offsets, so each  *)
(* field of the record below is one byte range of the 11075 packed bytes.  *)
(* The 1093 bytes after the packed region are never read or written.       *)
(***************************************************************************)
EXTENDS Integers, Sequences, FiniteSets, TLC

\* ------------------------------------------------------------------------
\* Program constants
\* ------------------------------------------------------------------------
MAX_TOPIC_NAME == 100

MAX_OPTION_NAME == 100

NUM_OPTIONS == 10

NUM_VOTERS == 30

\* '|' as u8
DELIM == 124

\* Pubkey::default()
DefaultKey == 0

\* the key of the topic account (accounts[0].key)
TopicKey == 7

\* ------------------------------------------------------------------------
\* Bounds of the exploration
\* ------------------------------------------------------------------------
\* Spec explores AddOption/CreateTopic appends only below this many options
MaxOpts == 2

\* Spec explores VoteTopic only while fewer than this many votes succeeded
MaxVotes == 1

\* the codec specifications try every text of at most this many bytes
MaxStrLen == 3

\* ------------------------------------------------------------------------
\* Input sets
\* ------------------------------------------------------------------------
\* the keys of the accounts that act (accounts[1]); no signer has the default key
Actors == {1, 2}

\* "" and "a"
TopicNames == {<< >>, <<97>>}

\* "x"
OptionNames == {<<120>>}

\* "x" and "y"
CapOptionNames == {<<120>>, <<121>>}

\* opt_idx values tried by SpecCap (u8)
CapVoteIdxs == {0, 10}

\* opt_idx values tried by Spec (u8)
VoteIdxs == {0, 1, 10}

\* bytes of the texts tried on the codecs: 'a', 'x' and '|'
Alphabet == {97, 120, DELIM}

RECURSIVE StringsUpTo(_)
\* every text over Alphabet of at most n bytes
StringsUpTo(n) ==
  IF n = 0 THEN {<< >>}
  ELSE LET shorter == StringsUpTo(n - 1)
       IN shorter \cup {Append(s, b) : s \in shorter, b \in Alphabet}

\* "aa..a" of n bytes
Repeat(n) == [k \in 1..n |-> 97]

\* texts given to str_pack: the short ones, and 'a's that fill the field less
\* two, less one (the longest that fits) and whole (one too long)
Strings ==
  StringsUpTo(MaxStrLen)
    \cup {Repeat(MAX_TOPIC_NAME - 2), Repeat(MAX_TOPIC_NAME - 1), Repeat(MAX_TOPIC_NAME)}

\* names given to the handlers by SpecLong: "a", and 'a's that fill a name
\* field less one (the longest that fits) and whole (one too long)
LongNames == {<<97>>, Repeat(MAX_TOPIC_NAME - 1), Repeat(MAX_TOPIC_NAME)}

\* opt_idx values tried by SpecSlots (u8): the last slot and the one past it
SlotVoteIdxs == {NUM_OPTIONS - 1, NUM_OPTIONS}

\* opt_idx values of the instructions given to pack (u8)
PackVoteIdxs == {0, 1, 9, 255}

\* bytes of the streams given to unpack alone: the four tags, an unknown tag,
\* 'a', '|' and 255 (a byte no UTF-8 text contains)
StreamBytes == {0, 1, 2, 3, 4, 97, DELIM, 255}

RECURSIVE StreamsUpTo(_)
\* every byte stream over StreamBytes of at most n bytes
StreamsUpTo(n) ==
  IF n = 0 THEN {<< >>}
  ELSE LET shorter == StreamsUpTo(n - 1)
       IN shorter \cup {Append(s, b) : s \in shorter, b \in StreamBytes}

\* instruction byte streams: empty, unknown tags 4 and 255, and for each known
\* tag its payloads: "a|x", "|x", "ax" and nothing after tag 0; "x" after tag 1;
\* 0 and nothing after tag 2; nothing and a stray byte after tag 3
Inputs ==
  { << >>, <<4>>, <<255>>,
    <<0, 97, 124, 120>>, <<0, 124, 120>>, <<0, 97, 120>>, <<0>>,
    <<1, 120>>,
    <<2, 0>>, <<2>>,
    <<3>>, <<3, 9>> }

\* the byte streams sent with accounts that fail the handlers' checks
BadInputs == {<<4>>, <<3>>}

\* accounts passed to a handler: how many there are, whether accounts[0] is owned
\* by the program, whether accounts[1] signed, and the key of accounts[1]
GoodAccounts(keys) ==
  { [n |-> 2, owned |-> TRUE, signer |-> TRUE, key |-> k] : k \in keys }

BadAccounts(keys) ==
  { [n |-> 2, owned |-> FALSE, signer |-> TRUE, key |-> k] : k \in keys }
  \cup { [n |-> 2, owned |-> TRUE, signer |-> FALSE, key |-> k] : k \in keys }
  \cup { [n |-> 1, owned |-> TRUE, signer |-> FALSE, key |-> DefaultKey] }

Accounts(keys) == GoodAccounts(keys) \cup BadAccounts(keys)

\* ------------------------------------------------------------------------
\* util.rs
\* ------------------------------------------------------------------------
RECURSIVE first_delim(_, _)
\* the loop of str_unpack: index of the first '|' from i on, 0 when there is none
first_delim(src, i) ==
  IF i >= MAX_TOPIC_NAME THEN 0
  ELSE IF src[i] = DELIM THEN i
  ELSE first_delim(src, i + 1)

str_unpack(src) ==
  LET split_index == first_delim(src, 0)
  IN IF split_index = 0 THEN << >>
     ELSE [i \in 1..split_index |-> src[i - 1]]

\* str_pack indexes dst[str.len()]: out of bounds (a panic) from 100 bytes on
str_pack_panics(str) == Len(str) >= MAX_TOPIC_NAME

\* str_pack that writes the text and no '|' after it
str_pack_no_delimiter(str, dst) ==
  [i \in 0..(MAX_TOPIC_NAME - 1) |->
     IF i < Len(str) THEN str[i + 1] ELSE dst[i]]

str_pack(str, dst) ==
  [i \in 0..(MAX_TOPIC_NAME - 1) |->
     IF i < Len(str) THEN str[i + 1]
     ELSE IF i = Len(str) THEN DELIM
     ELSE dst[i]]

ZeroName == [i \in 0..(MAX_TOPIC_NAME - 1) |-> 0]

\* ------------------------------------------------------------------------
\* state.rs: Option
\* ------------------------------------------------------------------------
Option_default ==
  [ belongs_to |-> DefaultKey,
    belongs_idx |-> 0,
    name |-> [i \in 0..(MAX_OPTION_NAME - 1) |-> 0],
    voters |-> [i \in 0..(NUM_VOTERS - 1) |-> DefaultKey],
    current_voter_index |-> 0 ]

Option_new(belongs_to, belongs_idx, name) ==
  [ belongs_to |-> belongs_to,
    belongs_idx |-> belongs_idx,
    name |-> str_pack(name, [i \in 0..(MAX_OPTION_NAME - 1) |-> 0]),
    voters |-> [i \in 0..(NUM_VOTERS - 1) |-> DefaultKey],
    current_voter_index |-> 0 ]

Option_add_voter(opt, voter) ==
  IF opt.current_voter_index = NUM_VOTERS - 1
  THEN [err |-> "InvalidArgument", opt |-> opt]
  ELSE [err |-> "Ok",
        opt |-> [opt EXCEPT !.voters[opt.current_voter_index] = voter,
                            !.current_voter_index = opt.current_voter_index + 1]]

\* the five fields are copied byte for byte (the loop over the 30 voters copies
\* voter i to voter i)
Option_unpack_from_slice(src) ==
  [ belongs_to |-> src.belongs_to,
    belongs_idx |-> src.belongs_idx,
    name |-> src.name,
    voters |-> src.voters,
    current_voter_index |-> src.current_voter_index ]

\* every byte of dst is overwritten
Option_pack_into_slice(opt, dst) ==
  [ belongs_to |-> opt.belongs_to,
    belongs_idx |-> opt.belongs_idx,
    name |-> opt.name,
    voters |-> opt.voters,
    current_voter_index |-> opt.current_voter_index ]

\* ------------------------------------------------------------------------
\* state.rs: Topic
\* ------------------------------------------------------------------------
\* Topic::empty_bytes(): the zero-filled account buffer
empty_bytes ==
  [ name |-> ZeroName,
    options |-> [i \in 0..(NUM_OPTIONS - 1) |-> Option_default],
    opt_current_idx |-> 0,
    owner |-> DefaultKey,
    result_idx |-> 0,
    is_finished |-> 0 ]

Topic_unpack_from_slice(src) ==
  [ name |-> src.name,
    options |-> [i \in 0..(NUM_OPTIONS - 1) |-> Option_unpack_from_slice(src.options[i])],
    opt_current_idx |-> src.opt_current_idx,
    owner |-> src.owner,
    result_idx |-> src.result_idx,
    is_finished |-> (src.is_finished = 1) ]

\* the is_finished byte is written only when the flag is set
Topic_pack_into_slice(topic, dst) ==
  [ name |-> topic.name,
    options |-> [i \in 0..(NUM_OPTIONS - 1) |->
                   Option_pack_into_slice(topic.options[i], dst.options[i])],
    opt_current_idx |-> topic.opt_current_idx,
    owner |-> topic.owner,
    result_idx |-> topic.result_idx,
    is_finished |-> IF topic.is_finished THEN 1 ELSE dst.is_finished ]

\* finalize leaving result_idx as it is
Topic_finalize_flag_only(topic) ==
  [topic EXCEPT !.is_finished = TRUE]

Topic_finalize(topic) ==
  [topic EXCEPT !.is_finished = TRUE, !.result_idx = 1]

Topic_set_name(topic, name) ==
  [topic EXCEPT !.name = str_pack(name, ZeroName)]

Topic_name_is_empty(topic) == str_unpack(topic.name) = << >>

Topic_add_option(topic, topic_key, opt_name) ==
  IF topic.opt_current_idx = NUM_OPTIONS - 1
  THEN [err |-> "InvalidArgument", topic |-> topic]
  ELSE IF str_pack_panics(opt_name)
  THEN [err |-> "Panic", topic |-> topic]
  ELSE [err |-> "Ok",
        topic |-> [topic EXCEPT
                     !.options[topic.opt_current_idx] =
                        Option_new(topic_key, topic.opt_current_idx, opt_name),
                     !.opt_current_idx = topic.opt_current_idx + 1]]

Topic_vote(topic, opt_idx, voter) ==
  IF topic.opt_current_idx < opt_idx
  THEN [err |-> "InvalidArgument", topic |-> topic]
  ELSE LET r == Option_add_voter(topic.options[opt_idx], voter)
       IN IF r.err # "Ok"
          THEN [err |-> r.err, topic |-> topic]
          ELSE [err |-> "Ok", topic |-> [topic EXCEPT !.options[opt_idx] = r.opt]]

\* ------------------------------------------------------------------------
\* processor.rs: the handlers, as functions of the buffer and the call.
\* Each returns the error (or "Ok") and the buffer after the call.  "Panic" is
\* an abort of the program (an index out of bounds in str_pack): the runtime
\* fails the transaction and the buffer keeps its content.
\* ------------------------------------------------------------------------
\* the account checks without the is_signer test
account_checks_no_signer(accs) ==
  IF accs.n < 2 THEN "NotEnoughAccountKeys"
  ELSE IF ~accs.owned THEN "IllegalOwner"
  ELSE "Ok"

\* the checks every handler starts with: two next_account_info, the program
\* ownership of accounts[0], the signature of accounts[1]
account_checks(accs) ==
  IF accs.n < 2 THEN "NotEnoughAccountKeys"
  ELSE IF ~accs.owned THEN "IllegalOwner"
  ELSE IF ~accs.signer THEN "MissingRequiredSignature"
  ELSE "Ok"

\* topic.name.is_empty() in the source is the emptiness of the [u8; 100] array
name_array_is_empty(topic) == MAX_TOPIC_NAME = 0

\* process_create_topic building the topic from Topic::default() and packing
\* it into a zeroed buffer
process_create_topic_from_default(buf, accs, topic_name, option_name) ==
  LET pre == account_checks(accs)
      topic == Topic_unpack_from_slice(buf)
      fresh == Topic_unpack_from_slice(empty_bytes)
      named == [Topic_set_name(fresh, topic_name) EXCEPT !.owner = accs.key]
      added == Topic_add_option(named, TopicKey, option_name)
  IN IF pre # "Ok" THEN [err |-> pre, data |-> buf]
     ELSE IF ~Topic_name_is_empty(topic)
     THEN [err |-> "AccountAlreadyInitialized", data |-> buf]
     ELSE IF str_pack_panics(topic_name) THEN [err |-> "Panic", data |-> buf]
     ELSE IF added.err # "Ok" THEN [err |-> added.err, data |-> buf]
     ELSE [err |-> "Ok", data |-> Topic_pack_into_slice(added.topic, empty_bytes)]

process_create_topic(buf, accs, topic_name, option_name) ==
  LET pre == account_checks(accs)
      topic == Topic_unpack_from_slice(buf)
      named == [Topic_set_name(topic, topic_name) EXCEPT !.owner = accs.key]
      added == Topic_add_option(named, TopicKey, option_name)
  IN IF pre # "Ok" THEN [err |-> pre, data |-> buf]
     ELSE IF ~Topic_name_is_empty(topic)
     THEN [err |-> "AccountAlreadyInitialized", data |-> buf]
     ELSE IF str_pack_panics(topic_name) THEN [err |-> "Panic", data |-> buf]
     ELSE IF added.err # "Ok" THEN [err |-> added.err, data |-> buf]
     ELSE [err |-> "Ok", data |-> Topic_pack_into_slice(added.topic, buf)]

process_add_option(buf, accs, option_name) ==
  LET pre == account_checks(accs)
      topic == Topic_unpack_from_slice(buf)
      added == Topic_add_option(topic, TopicKey, option_name)
  IN IF pre # "Ok" THEN [err |-> pre, data |-> buf]
     ELSE IF name_array_is_empty(topic) \/ topic.is_finished
     THEN [err |-> "InvalidAccountData", data |-> buf]
     ELSE IF added.err # "Ok" THEN [err |-> added.err, data |-> buf]
     ELSE [err |-> "Ok", data |-> Topic_pack_into_slice(added.topic, buf)]

\* process_vote without the is_finished test
process_vote_no_finished_check(buf, accs, opt_idx) ==
  LET pre == account_checks(accs)
      topic == Topic_unpack_from_slice(buf)
      voted == Topic_vote(topic, opt_idx, accs.key)
  IN IF pre # "Ok" THEN [err |-> pre, data |-> buf]
     ELSE IF name_array_is_empty(topic)
     THEN [err |-> "InvalidAccountData", data |-> buf]
     ELSE IF voted.err # "Ok" THEN [err |-> voted.err, data |-> buf]
     ELSE [err |-> "Ok", data |-> Topic_pack_into_slice(voted.topic, buf)]

process_vote(buf, accs, opt_idx) ==
  LET pre == account_checks(accs)
      topic == Topic_unpack_from_slice(buf)
      voted == Topic_vote(topic, opt_idx, accs.key)
  IN IF pre # "Ok" THEN [err |-> pre, data |-> buf]
     ELSE IF name_array_is_empty(topic) \/ topic.is_finished
     THEN [err |-> "InvalidAccountData", data |-> buf]
     ELSE IF voted.err # "Ok" THEN [err |-> voted.err, data |-> buf]
     ELSE [err |-> "Ok", data |-> Topic_pack_into_slice(voted.topic, buf)]

\* process_finish without the comparison of the owner
process_finish_no_owner_check(buf, accs) ==
  LET pre == account_checks(accs)
      topic == Topic_unpack_from_slice(buf)
  IN IF pre # "Ok" THEN [err |-> pre, data |-> buf]
     ELSE IF name_array_is_empty(topic) \/ topic.is_finished
     THEN [err |-> "InvalidAccountData", data |-> buf]
     ELSE [err |-> "Ok", data |-> Topic_pack_into_slice(Topic_finalize(topic), buf)]

\* process_finish packing the finalized topic before the owner is compared
process_finish_pack_first(buf, accs) ==
  LET pre == account_checks(accs)
      topic == Topic_unpack_from_slice(buf)
      packed == Topic_pack_into_slice(Topic_finalize(topic), buf)
  IN IF pre # "Ok" THEN [err |-> pre, data |-> buf]
     ELSE IF name_array_is_empty(topic) \/ topic.is_finished
     THEN [err |-> "InvalidAccountData", data |-> buf]
     ELSE IF topic.owner # accs.key THEN [err |-> "IllegalOwner", data |-> packed]
     ELSE [err |-> "Ok", data |-> packed]

process_finish(buf, accs) ==
  LET pre == account_checks(accs)
      topic == Topic_unpack_from_slice(buf)
  IN IF pre # "Ok" THEN [err |-> pre, data |-> buf]
     ELSE IF name_array_is_empty(topic) \/ topic.is_finished
     THEN [err |-> "InvalidAccountData", data |-> buf]
     ELSE IF topic.owner # accs.key THEN [err |-> "IllegalOwner", data |-> buf]
     ELSE [err |-> "Ok", data |-> Topic_pack_into_slice(Topic_finalize(topic), buf)]

\* ------------------------------------------------------------------------
\* instruction.rs
\* ------------------------------------------------------------------------
\* a TopicInstruction value; a field the variant does not have is "" or 0
Instruction(op, topic_name, option_name, opt_idx) ==
  [ op |-> op, topic_name |-> topic_name, option_name |-> option_name,
    opt_idx |-> opt_idx ]

FinishTopicInstruction == Instruction("FinishTopic", << >>, << >>, 0)

Decoded(i) == [err |-> "Ok", i |-> i]

DecodeError(err) == [err |-> err, i |-> FinishTopicInstruction]

RECURSIVE first_bar(_, _)
\* the loop of unpack's tag 0: index of the first '|' of rest from i on, 0 when
\* there is none
first_bar(rest, i) ==
  IF i >= Len(rest) THEN 0
  ELSE IF rest[i + 1] = DELIM THEN i
  ELSE first_bar(rest, i + 1)

\* from_utf8(..).unwrap() panics on bytes that are not UTF-8 text.  The byte
\* streams of the input sets hold one-byte characters (below 128) and the byte
\* 255, which no UTF-8 text contains
from_utf8_panics(bytes) == \E k \in 1..Len(bytes) : bytes[k] >= 128

\* the match on the tag
unpack_tag(tag, rest) ==
  CASE tag = 0 ->
         LET split_index == first_bar(rest, 0)
             topic_name == SubSeq(rest, 1, split_index)
             option_name == SubSeq(rest, split_index + 1, Len(rest))
         IN IF Len(option_name) = 0 THEN DecodeError("InvalidInstructionData")
            ELSE IF from_utf8_panics(topic_name) \/ from_utf8_panics(Tail(option_name))
            THEN DecodeError("Panic")
            ELSE Decoded(Instruction("CreateTopic", topic_name, Tail(option_name), 0))
    [] tag = 1 ->
         IF from_utf8_panics(rest) THEN DecodeError("Panic")
         ELSE Decoded(Instruction("AddOption", << >>, rest, 0))
    [] tag = 2 ->
         IF Len(rest) = 0 THEN DecodeError("Panic")
         ELSE Decoded(Instruction("VoteTopic", << >>, << >>, rest[1]))
    [] tag = 3 -> Decoded(FinishTopicInstruction)
    [] OTHER -> DecodeError("InvalidInstructionData")

\* unpack reading an empty stream as FinishTopic
TopicInstruction_unpack_empty_is_finish(input) ==
  IF Len(input) = 0 THEN Decoded(FinishTopicInstruction)
  ELSE unpack_tag(Head(input), Tail(input))

TopicInstruction_unpack(input) ==
  IF Len(input) = 0 THEN DecodeError("InvalidInstructionData")
  ELSE unpack_tag(Head(input), Tail(input))

\* pack without the '|' between the two names
TopicInstruction_pack_no_delimiter(i) ==
  CASE i.op = "CreateTopic" -> <<0>> \o i.topic_name \o i.option_name
    [] i.op = "AddOption" -> <<1>> \o i.option_name
    [] i.op = "VoteTopic" -> <<2, i.opt_idx>>
    [] i.op = "FinishTopic" -> <<3>>

TopicInstruction_pack(i) ==
  CASE i.op = "CreateTopic" -> <<0>> \o i.topic_name \o <<DELIM>> \o i.option_name
    [] i.op = "AddOption" -> <<1>> \o i.option_name
    [] i.op = "VoteTopic" -> <<2, i.opt_idx>>
    [] i.op = "FinishTopic" -> <<3>>

\* ------------------------------------------------------------------------
\* State
\* ------------------------------------------------------------------------
VARIABLES
  data,   \* the packed region of the topic account's buffer
  ret,    \* the last call: operation, accounts, arguments, result and the buffer before it
  hist,   \* what has succeeded so far on this buffer
  input,  \* the instruction bytes Processor::process was last given
  calc    \* a computation of a codec function: its argument, stage and results

vars == <<data, ret, hist, input, calc>>

NoName == << >>

Call(op, accs, tn, on, idx, err) ==
  [ op |-> op, accs |-> accs, topic_name |-> tn, option_name |-> on,
    opt_idx |-> idx, err |-> err ]

NoAccounts == [n |-> 0, owned |-> FALSE, signer |-> FALSE, key |-> DefaultKey]

NoCalc == [stage |-> "none"]

Init ==
  /\ data = empty_bytes
  /\ ret = Call("none", NoAccounts, NoName, NoName, 0, "Ok")
  /\ hist = [ created |-> FALSE, finished |-> FALSE, adds |-> 0,
              votes |-> [i \in 0..(NUM_OPTIONS - 1) |-> 0] ]
  /\ input = << >>
  /\ calc = NoCalc

CreateTopic(accs, topic_name, option_name) ==
  \E r \in {process_create_topic(data, accs, topic_name, option_name)} :
     /\ data' = r.data
     /\ ret' = Call("CreateTopic", accs, topic_name, option_name, 0, r.err)
     /\ hist' = IF r.err = "Ok" /\ ~hist.created
                THEN [hist EXCEPT !.created = TRUE, !.adds = 0]
                ELSE hist

AddOption(accs, option_name) ==
  \E r \in {process_add_option(data, accs, option_name)} :
     /\ data' = r.data
     /\ ret' = Call("AddOption", accs, NoName, option_name, 0, r.err)
     /\ hist' = IF r.err = "Ok" /\ hist.created
                THEN [hist EXCEPT !.adds = hist.adds + 1]
                ELSE hist

VoteTopic(accs, opt_idx) ==
  \E r \in {process_vote(data, accs, opt_idx)} :
     /\ data' = r.data
     /\ ret' = Call("VoteTopic", accs, NoName, NoName, opt_idx, r.err)
     /\ hist' = IF r.err = "Ok"
                THEN [hist EXCEPT !.votes[opt_idx] = hist.votes[opt_idx] + 1]
                ELSE hist

FinishTopic(accs) ==
  \E r \in {process_finish(data, accs)} :
     /\ data' = r.data
     /\ ret' = Call("FinishTopic", accs, NoName, NoName, 0, r.err)
     /\ hist' = IF r.err = "Ok" THEN [hist EXCEPT !.finished = TRUE] ELSE hist

\* Processor::process: decode the instruction, then run its handler; a decode
\* error or panic ends the call before any handler runs
Process(accs, bytes) ==
  \E d \in {TopicInstruction_unpack(bytes)} :
     /\ input' = bytes
     /\ IF d.err # "Ok"
        THEN /\ data' = data
             /\ ret' = Call("none", accs, NoName, NoName, 0, d.err)
             /\ hist' = hist
        ELSE CASE d.i.op = "CreateTopic" ->
                    CreateTopic(accs, d.i.topic_name, d.i.option_name)
               [] d.i.op = "AddOption" -> AddOption(accs, d.i.option_name)
               [] d.i.op = "VoteTopic" -> VoteTopic(accs, d.i.opt_idx)
               [] d.i.op = "FinishTopic" -> FinishTopic(accs)

TotalVotes == hist.votes[0] + hist.votes[1] + hist.votes[2] + hist.votes[3]
              + hist.votes[4] + hist.votes[5] + hist.votes[6] + hist.votes[7]
              + hist.votes[8] + hist.votes[9]

\* a call whose accounts fail the checks that come before the buffer is read
BadCall ==
  \E accs \in BadAccounts({1}) :
     \/ CreateTopic(accs, <<97>>, <<120>>)
     \/ AddOption(accs, <<120>>)
     \/ VoteTopic(accs, 0)
     \/ FinishTopic(accs)

\* Spec: every input of the input sets, in every reachable state; a call that
\* would grow the topic past MaxOpts options or MaxVotes votes is not followed
Next ==
  \/ \E accs \in GoodAccounts(Actors), tn \in TopicNames, on \in OptionNames :
        /\ CreateTopic(accs, tn, on)
        /\ ret'.err = "Ok" => data.opt_current_idx < MaxOpts
        /\ UNCHANGED <<input, calc>>
  \/ \E accs \in GoodAccounts(Actors), on \in OptionNames :
        /\ AddOption(accs, on)
        /\ ret'.err = "Ok" => data.opt_current_idx < MaxOpts
        /\ UNCHANGED <<input, calc>>
  \/ \E accs \in GoodAccounts(Actors), idx \in VoteIdxs :
        /\ VoteTopic(accs, idx)
        /\ ret'.err = "Ok" => TotalVotes < MaxVotes
        /\ UNCHANGED <<input, calc>>
  \/ \E accs \in GoodAccounts(Actors) :
        FinishTopic(accs) /\ UNCHANGED <<input, calc>>
  \/ BadCall /\ UNCHANGED <<input, calc>>

Spec == Init /\ [][Next]_vars

\* SpecCap: one topic name, so that the topic is created once, and votes for
\* option 0 only; options and voters grow until the code refuses them.  A
\* successful AddOption or VoteTopic is followed only on a created topic.
NextCap ==
  \/ \E accs \in GoodAccounts(Actors), on \in CapOptionNames :
        CreateTopic(accs, <<97>>, on) /\ UNCHANGED <<input, calc>>
  \/ \E accs \in GoodAccounts({1}) :
        /\ AddOption(accs, <<121>>)
        /\ ret'.err = "Ok" => hist.created
        /\ UNCHANGED <<input, calc>>
  \/ \E accs \in GoodAccounts({1}), idx \in CapVoteIdxs :
        /\ VoteTopic(accs, idx)
        /\ ret'.err = "Ok" => hist.created
        /\ UNCHANGED <<input, calc>>
  \/ \E accs \in GoodAccounts(Actors) :
        FinishTopic(accs) /\ UNCHANGED <<input, calc>>
  \/ BadCall /\ UNCHANGED <<input, calc>>

SpecCap == Init /\ [][NextCap]_vars

\* SpecLong: names that fit a field exactly and names one byte too long, by
\* one signer, within the bounds of Spec
NextLong ==
  \/ \E accs \in GoodAccounts({1}), tn \in LongNames, on \in LongNames :
        /\ CreateTopic(accs, tn, on)
        /\ ret'.err = "Ok" => data.opt_current_idx < MaxOpts
        /\ UNCHANGED <<input, calc>>
  \/ \E accs \in GoodAccounts({1}), on \in LongNames :
        /\ AddOption(accs, on)
        /\ ret'.err = "Ok" => data.opt_current_idx < MaxOpts
        /\ UNCHANGED <<input, calc>>
  \/ \E accs \in GoodAccounts({1}) :
        /\ VoteTopic(accs, 0)
        /\ ret'.err = "Ok" => TotalVotes < MaxVotes
        /\ UNCHANGED <<input, calc>>
  \/ \E accs \in GoodAccounts({1}) :
        FinishTopic(accs) /\ UNCHANGED <<input, calc>>
  \/ BadCall /\ UNCHANGED <<input, calc>>

SpecLong == Init /\ [][NextLong]_vars

\* SpecSlots: one signer creates the topic, adds options until the code
\* refuses them and votes for the last slot and the one past it
NextSlots ==
  \/ \E accs \in GoodAccounts({1}) :
        CreateTopic(accs, <<97>>, <<120>>) /\ UNCHANGED <<input, calc>>
  \/ \E accs \in GoodAccounts({1}) :
        /\ AddOption(accs, <<121>>)
        /\ ret'.err = "Ok" => hist.created
        /\ UNCHANGED <<input, calc>>
  \/ \E accs \in GoodAccounts({1}), idx \in SlotVoteIdxs :
        /\ VoteTopic(accs, idx)
        /\ ret'.err = "Ok" => hist.created
        /\ UNCHANGED <<input, calc>>
  \/ \E accs \in GoodAccounts({1}) :
        FinishTopic(accs) /\ UNCHANGED <<input, calc>>
  \/ BadCall /\ UNCHANGED <<input, calc>>

SpecSlots == Init /\ [][NextSlots]_vars

\* ------------------------------------------------------------------------
\* Codec computations
\* ------------------------------------------------------------------------
RECURSIVE with_options(_, _)
\* topic after n more add_option("x")
with_options(topic, n) ==
  IF n = 0 THEN topic
  ELSE with_options(Topic_add_option(topic, TopicKey, <<120>>).topic, n - 1)

RECURSIVE with_votes(_, _)
\* topic after n more vote(0, ..) by voter 2
with_votes(topic, n) ==
  IF n = 0 THEN topic
  ELSE with_votes(Topic_vote(topic, 0, 2).topic, n - 1)

\* Topic values: the default one, and topics named "a" owned by 1 with up to
\* MaxOpts options and up to MaxVotes votes for option 0, open and finalized
TopicValues ==
  LET default == Topic_unpack_from_slice(empty_bytes)
      named == [Topic_set_name(default, <<97>>) EXCEPT !.owner = 1]
      open == {default}
                \cup {with_options(named, n) : n \in 0..MaxOpts}
                \cup {with_votes(with_options(named, n), k) :
                        n \in 1..MaxOpts, k \in 1..MaxVotes}
  IN open \cup {Topic_finalize(t) : t \in open}

\* what a destination buffer holds before the pack: zeros, or a packed Topic
DstBuffers ==
  {empty_bytes} \cup {Topic_pack_into_slice(t, empty_bytes) : t \in TopicValues}

\* SpecCodec: a Topic value is packed into a buffer, and the buffer unpacked
InitCodec ==
  /\ data \in DstBuffers
  /\ ret = Call("none", NoAccounts, NoName, NoName, 0, "Ok")
  /\ hist = [ created |-> FALSE, finished |-> FALSE, adds |-> 0,
              votes |-> [i \in 0..(NUM_OPTIONS - 1) |-> 0] ]
  /\ input = << >>
  /\ calc \in {[stage |-> "new", v |-> v, dst |-> data, out |-> v] : v \in TopicValues}

TopicPack ==
  /\ calc.stage = "new"
  /\ data' = Topic_pack_into_slice(calc.v, data)
  /\ calc' = [calc EXCEPT !.stage = "packed"]
  /\ UNCHANGED <<ret, hist, input>>

TopicUnpack ==
  /\ calc.stage = "packed"
  /\ calc' = [calc EXCEPT !.stage = "unpacked", !.out = Topic_unpack_from_slice(data)]
  /\ UNCHANGED <<data, ret, hist, input>>

NextCodec == TopicPack \/ TopicUnpack

SpecCodec == InitCodec /\ [][NextCodec]_vars

\* SpecText: a text is written into a zero-initialized field, and the field read
InitText ==
  /\ data = empty_bytes
  /\ ret = Call("none", NoAccounts, NoName, NoName, 0, "Ok")
  /\ hist = [ created |-> FALSE, finished |-> FALSE, adds |-> 0,
              votes |-> [i \in 0..(NUM_OPTIONS - 1) |-> 0] ]
  /\ input = << >>
  /\ calc \in {[stage |-> "new", s |-> s, field |-> ZeroName, out |-> << >>] :
                 s \in Strings}

StrPack ==
  /\ calc.stage = "new"
  /\ calc' = IF str_pack_panics(calc.s)
             THEN [calc EXCEPT !.stage = "panic"]
             ELSE [calc EXCEPT !.stage = "packed",
                               !.field = str_pack(calc.s, calc.field)]
  /\ UNCHANGED <<data, ret, hist, input>>

StrUnpack ==
  /\ calc.stage = "packed"
  /\ calc' = [calc EXCEPT !.stage = "unpacked", !.out = str_unpack(calc.field)]
  /\ UNCHANGED <<data, ret, hist, input>>

NextText == StrPack \/ StrUnpack

SpecText == InitText /\ [][NextText]_vars

\* instruction values given to pack
Instructions ==
  {Instruction("CreateTopic", tn, on, 0) :
     tn \in StringsUpTo(MaxStrLen), on \in StringsUpTo(MaxStrLen)}
    \cup {Instruction("AddOption", << >>, on, 0) : on \in StringsUpTo(MaxStrLen)}
    \cup {Instruction("VoteTopic", << >>, << >>, idx) : idx \in PackVoteIdxs}
    \cup {FinishTopicInstruction}

\* SpecInstr: an instruction is packed, and the bytes unpacked
InitInstr ==
  /\ data = empty_bytes
  /\ ret = Call("none", NoAccounts, NoName, NoName, 0, "Ok")
  /\ hist = [ created |-> FALSE, finished |-> FALSE, adds |-> 0,
              votes |-> [i \in 0..(NUM_OPTIONS - 1) |-> 0] ]
  /\ input = << >>
  /\ calc \in {[stage |-> "new", i |-> i, bytes |-> << >>,
                 out |-> DecodeError("none")] : i \in Instructions}

InstrPack ==
  /\ calc.stage = "new"
  /\ calc' = [calc EXCEPT !.stage = "packed", !.bytes = TopicInstruction_pack(calc.i)]
  /\ UNCHANGED <<data, ret, hist, input>>

InstrUnpack ==
  /\ calc.stage = "packed"
  /\ calc' = [calc EXCEPT !.stage = "unpacked",
                          !.out = TopicInstruction_unpack(calc.bytes)]
  /\ UNCHANGED <<data, ret, hist, input>>

NextInstr == InstrPack \/ InstrUnpack

SpecInstr == InitInstr /\ [][NextInstr]_vars

\* SpecDecode: a byte stream as it arrives is unpacked
InitDecode ==
  /\ data = empty_bytes
  /\ ret = Call("none", NoAccounts, NoName, NoName, 0, "Ok")
  /\ hist = [ created |-> FALSE, finished |-> FALSE, adds |-> 0,
              votes |-> [i \in 0..(NUM_OPTIONS - 1) |-> 0] ]
  /\ input = << >>
  /\ calc \in {[stage |-> "received", bytes |-> b, out |-> DecodeError("none")] :
                 b \in StreamsUpTo(MaxStrLen)}

Decode ==
  /\ calc.stage = "received"
  /\ calc' = [calc EXCEPT !.stage = "decoded",
                          !.out = TopicInstruction_unpack(calc.bytes)]
  /\ UNCHANGED <<data, ret, hist, input>>

NextDecode == Decode

SpecDecode == InitDecode /\ [][NextDecode]_vars

\* SpecProcess: the program as its entrypoint sees it, from instruction bytes
NextProcess ==
  \/ \E accs \in GoodAccounts(Actors), bytes \in Inputs :
        /\ Process(accs, bytes)
        /\ (ret'.err = "Ok" /\ ret'.op \in {"CreateTopic", "AddOption"})
             => data.opt_current_idx < MaxOpts
        /\ (ret'.err = "Ok" /\ ret'.op = "VoteTopic") => TotalVotes < MaxVotes
        /\ UNCHANGED calc
  \/ \E accs \in BadAccounts({1}), bytes \in BadInputs :
        Process(accs, bytes) /\ UNCHANGED calc

SpecProcess == Init /\ [][NextProcess]_vars

\* ------------------------------------------------------------------------
\* Properties
\* ------------------------------------------------------------------------
\* the call had two accounts, a program-owned buffer and a signer
Good(accs) == accs.n = 2 /\ accs.owned /\ accs.signer

\* the Topic value the buffer holds
Topic == Topic_unpack_from_slice(data)

GatedOps == {"AddOption", "VoteTopic", "FinishTopic"}

\* C1: once a FinishTopic has succeeded, every later call fails and the name,
\* the options and the owner stay as they are.
C1_FinishedIsTerminal ==
  [][hist.finished =>
       /\ ret'.err # "Ok"
       /\ data'.name = data.name
       /\ data'.options = data.options
       /\ data'.owner = data.owner]_vars

\* C2: on a topic whose name decodes to the empty string, AddOption, VoteTopic
\* and FinishTopic by a signer fail with InvalidAccountData.  (None of the three
\* writes the name, so the name after the call is the name before it.)
C2_UninitializedRejects ==
  (ret.op \in GatedOps /\ Good(ret.accs) /\ Topic_name_is_empty(Topic))
    => ret.err = "InvalidAccountData"

\* C3: on a buffer whose is_finished flag is set, AddOption, VoteTopic and
\* FinishTopic by a signer on a program-owned buffer fail with
\* InvalidAccountData, for every actor and every argument.
C3_FinishedRejects ==
  [][(data.is_finished = 1 /\ ret'.op \in GatedOps /\ Good(ret'.accs))
       => ret'.err = "InvalidAccountData"]_vars

\* a later VoteTopic by a signer who is not the owner was refused on a finished topic
C3_Witness ==
  /\ data.is_finished = 1
  /\ hist.finished
  /\ ret.op = "VoteTopic"
  /\ Good(ret.accs)
  /\ ret.accs.key # data.owner
  /\ ret.opt_idx = 0
  /\ ret.err = "InvalidAccountData"

\* C4: a call that returns an error leaves the buffer as it was before the call.
C4_FailureAtomicity ==
  [][ret'.err # "Ok" => data' = data]_vars

\* the 30th vote for option 0 was refused, on a topic with votes and options
C4_Witness ==
  /\ ret.op = "VoteTopic"
  /\ ret.opt_idx = 0
  /\ ret.err = "InvalidArgument"
  /\ data.options[0].current_voter_index = NUM_VOTERS - 1
  /\ data.opt_current_idx > 1

\* C5: after a successful CreateTopic no later CreateTopic succeeds, and one
\* that passes the account checks fails with AccountAlreadyInitialized.
C5_CreateOnce ==
  [][(hist.created /\ ret'.op = "CreateTopic") =>
       /\ ret'.err # "Ok"
       /\ Good(ret'.accs) => ret'.err = "AccountAlreadyInitialized"]_vars

\* C6: the first successful CreateTopic sets the owner to its actor, and no
\* later call changes the owner.
C6_OwnerSetOnce ==
  [][/\ (~hist.created /\ hist'.created) => data'.owner = ret'.accs.key
     /\ hist.created => data'.owner = data.owner]_vars

\* C7: a successful CreateTopic(topic_name, option_name) by actor a leaves the
\* name topic_name, the owner a, and one populated option: slot 0, with
\* option_name, belongs_idx 0 and no voters.
C7_CreatePostcondition ==
  (ret.op = "CreateTopic" /\ ret.err = "Ok") =>
     /\ str_unpack(data.name) = ret.topic_name
     /\ data.owner = ret.accs.key
     /\ data.opt_current_idx = 1
     /\ str_unpack(data.options[0].name) = ret.option_name
     /\ data.options[0].belongs_idx = 0
     /\ data.options[0].current_voter_index = 0
     /\ \A v \in 0..(NUM_VOTERS - 1) : data.options[0].voters[v] = DefaultKey

\* C8: after a successful CreateTopic and n successful AddOption calls,
\* opt_current_idx = n + 1 and slot i has belongs_idx = i; an AddOption on a
\* topic with 9 options fails with InvalidArgument.
C8_OptionGrowth ==
  /\ hist.created =>
       /\ data.opt_current_idx = hist.adds + 1
       /\ \A i \in 0..(NUM_OPTIONS - 1) :
            i < data.opt_current_idx => data.options[i].belongs_idx = i
  /\ (ret.op = "AddOption" /\ Good(ret.accs) /\ ret.err = "Ok")
       => data.opt_current_idx <= NUM_OPTIONS - 1

\* C9: option i's current_voter_index is the number of successful VoteTopic(i).
C9_VotesNeverLost ==
  \A i \in 0..(NUM_OPTIONS - 1) :
     data.options[i].current_voter_index = hist.votes[i]

\* C10: a VoteTopic for an index that is not a populated option does not
\* succeed, and every slot from opt_current_idx on has no votes.
C10_VotesOnlyInPopulated ==
  /\ (ret.op = "VoteTopic" /\ ret.opt_idx >= data.opt_current_idx) => ret.err # "Ok"
  /\ \A i \in 0..(NUM_OPTIONS - 1) :
        i >= data.opt_current_idx => data.options[i].current_voter_index = 0

RECURSIVE WinnerFrom(_, _, _)
\* the index of the populated option with the most voters, the lowest on a tie:
\* best is the winner among 0..i-1
WinnerFrom(topic, i, best) ==
  IF i >= topic.opt_current_idx THEN best
  ELSE IF topic.options[i].current_voter_index
            > topic.options[best].current_voter_index
       THEN WinnerFrom(topic, i + 1, i)
       ELSE WinnerFrom(topic, i + 1, best)

\* C12: after a successful FinishTopic result_idx is the index of the populated
\* option with the highest voter count, the lowest index on a tie.
C12_ResultIsWinner ==
  (ret.op = "FinishTopic" /\ ret.err = "Ok")
    => data.result_idx = WinnerFrom(Topic, 0, 0)

\* C13: a successful FinishTopic sets is_finished and sets result_idx to 1, and
\* changes nothing else in the buffer.
C13_FinishFrame ==
  [][(ret'.op = "FinishTopic" /\ ret'.err = "Ok") =>
       /\ data'.is_finished = 1
       /\ data'.result_idx = 1
       /\ data'.name = data.name
       /\ data'.options = data.options
       /\ data'.opt_current_idx = data.opt_current_idx
       /\ data'.owner = data.owner]_vars

\* the owner finished a topic that has two options and a vote
C13_Witness ==
  /\ ret.op = "FinishTopic"
  /\ ret.err = "Ok"
  /\ data.is_finished = 1
  /\ data.result_idx = 1
  /\ data.opt_current_idx = 2
  /\ data.options[0].current_voter_index = 1

\* C14: a call with a program-owned buffer whose second account did not sign
\* fails with MissingRequiredSignature, in every state of the topic; no call
\* succeeds for a second account that did not sign.
C14_SignatureRequired ==
  /\ (ret.op # "none" /\ ret.accs.n = 2 /\ ret.accs.owned /\ ~ret.accs.signer)
       => ret.err = "MissingRequiredSignature"
  /\ (ret.op # "none" /\ ret.err = "Ok") => ret.accs.signer

\* the owner's FinishTopic without a signature was refused on an open topic
C14_Witness ==
  /\ ret.op = "FinishTopic"
  /\ ret.accs.n = 2
  /\ ret.accs.owned
  /\ ~ret.accs.signer
  /\ ret.accs.key = data.owner
  /\ hist.created
  /\ data.is_finished = 0
  /\ ret.err = "MissingRequiredSignature"

\* C17: when the instruction bytes are empty or start with a tag outside
\* {0,1,2,3}, Processor::process returns InvalidInstructionData and the buffer
\* is as it was.
C17_BadInstructionRejected ==
  [][(input' = << >> \/ input'[1] \notin {0, 1, 2, 3}) =>
       /\ ret'.err = "InvalidInstructionData"
       /\ data' = data]_vars

\* the owner of an open topic sent an unknown tag and was refused
C17_Witness ==
  /\ input = <<4>>
  /\ ret.err = "InvalidInstructionData"
  /\ Good(ret.accs)
  /\ ret.accs.key = data.owner
  /\ hist.created
  /\ data.is_finished = 0

\* the text has no '|' in it
NoDelimiter(s) == \A k \in 1..Len(s) : s[k] # DELIM

\* C15: unpacking the buffer a Topic value v was packed into gives v, and the
\* packed bytes are those v gives in a zero-filled buffer, whatever the
\* destination held before.
C15_TopicRoundTrip ==
  calc.stage = "unpacked" =>
    /\ calc.out = calc.v
    /\ data = Topic_pack_into_slice(calc.v, empty_bytes)

\* C16 as stated: every text of at most 99 bytes is what str_unpack reads from
\* the zero-initialized field str_pack wrote it into.
C16_TextFieldLaw_AnyText ==
  (calc.stage = "unpacked" /\ Len(calc.s) <= MAX_TOPIC_NAME - 1)
    => calc.out = calc.s

\* C16: every text of at most 99 bytes that has no '|' in it is what str_unpack
\* reads from the zero-initialized field str_pack wrote it into; the empty
\* text reads as the empty text.
C16_TextFieldLaw ==
  (/\ calc.stage = "unpacked"
   /\ Len(calc.s) <= MAX_TOPIC_NAME - 1
   /\ NoDelimiter(calc.s)) => calc.out = calc.s

\* the longest text that fits was written and read back whole
C16_Witness ==
  /\ calc.stage = "unpacked"
  /\ Len(calc.s) = MAX_TOPIC_NAME - 1
  /\ calc.out = calc.s
  /\ calc.field[MAX_TOPIC_NAME - 1] = DELIM

\* C18 as stated: unpacking the bytes of any packed instruction gives the
\* instruction.
C18_InstructionRoundTrip_AnyName ==
  calc.stage = "unpacked" => calc.out = Decoded(calc.i)

\* C18: unpacking the bytes of a packed instruction gives the instruction,
\* for every instruction but a CreateTopic whose topic_name has a '|' in it.
C18_InstructionRoundTrip ==
  (/\ calc.stage = "unpacked"
   /\ calc.i.op = "CreateTopic" => NoDelimiter(calc.i.topic_name))
    => calc.out = Decoded(calc.i)

\* a CreateTopic with an option name that has a '|' in it came back whole
C18_Witness ==
  /\ calc.stage = "unpacked"
  /\ calc.i.op = "CreateTopic"
  /\ calc.i.topic_name = <<97>>
  /\ calc.i.option_name = <<120, 124, 97>>
  /\ calc.out = Decoded(calc.i)

\* the last call was a CreateTopic or AddOption by good accounts with a name
\* of more than 99 bytes that no check of the buffer's state refused
LongNameCall ==
  /\ ret.op \in {"CreateTopic", "AddOption"}
  /\ Good(ret.accs)
  /\ \/ Len(ret.topic_name) > MAX_TOPIC_NAME - 1
     \/ Len(ret.option_name) > MAX_OPTION_NAME - 1
  /\ ret.err \notin {"AccountAlreadyInitialized", "InvalidAccountData", "InvalidArgument"}

\* C19: a CreateTopic or AddOption with a name of more than 99 bytes returns
\* FieldTooLong; after a successful call with a name of exactly 99 bytes the
\* buffer holds the whole name.
C19_LongNameRejected ==
  /\ LongNameCall => ret.err = "FieldTooLong"
  /\ (ret.op = "CreateTopic" /\ ret.err = "Ok"
        /\ Len(ret.topic_name) = MAX_TOPIC_NAME - 1)
       => str_unpack(data.name) = ret.topic_name
  /\ (ret.op \in {"CreateTopic", "AddOption"} /\ ret.err = "Ok"
        /\ Len(ret.option_name) = MAX_OPTION_NAME - 1)
       => str_unpack(data.options[data.opt_current_idx - 1].name) = ret.option_name

\* C20: opt_current_idx is at most 9, every current_voter_index is at most
\* 29, the 10th option slot holds the zeros it started with and no option's
\* 30th voter slot holds a voter.
C20_CapacityInvariant ==
  /\ data.opt_current_idx \in 0..(NUM_OPTIONS - 1)
  /\ \A i \in 0..(NUM_OPTIONS - 1) :
       /\ data.options[i].current_voter_index \in 0..(NUM_VOTERS - 1)
       /\ data.options[i].voters[NUM_VOTERS - 1] = DefaultKey
  /\ data.options[NUM_OPTIONS - 1] = empty_bytes.options[NUM_OPTIONS - 1]

\* C21: once the is_finished byte of the buffer is 1, it is 1 after every
\* call, also after one that succeeds on the finished topic.
C21_FinishedStaysFinished ==
  [][data.is_finished = 1 => data'.is_finished = 1]_vars

\* a CreateTopic succeeded on a finished topic and the flag is still set
C21_Witness ==
  /\ hist.finished
  /\ ret.op = "CreateTopic"
  /\ ret.err = "Ok"
  /\ data.is_finished = 1

\* C22: a finished buffer's result_idx is the index of a populated option, and
\* an unfinished buffer's result_idx is 0.
C22_ResultIdxRange ==
  /\ data.is_finished = 1 => data.result_idx < data.opt_current_idx
  /\ data.is_finished # 1 => data.result_idx = 0

\* C23: unpack returns an instruction or InvalidInstructionData for every
\* byte stream and never panics; the stream that is the VoteTopic tag alone
\* gives InvalidInstructionData.
C23_DecodingTotal ==
  calc.stage = "decoded" =>
    /\ calc.out.err \in {"Ok", "InvalidInstructionData"}
    /\ calc.bytes = <<2>> => calc.out.err = "InvalidInstructionData"

====
